---- MODULE Spec2Model ----
(***************************************************************************)
(* A model of the optimize() loops of three pypop7 optimizers:             *)
(*   LMMAES (optimizers/es/lmmaes.py), XNES (optimizers/nes/xnes.py) and   *)
(*   SRS (optimizers/rs/srs.py).                                           *)
(*                                                                         *)
(* One run of optimize() is one behaviour.  The optimizer class, its       *)
(* options and the random draws / fitness values are inputs.  The model    *)
(* fixes ndim_problem = 1, so vectors have one coordinate and the XNES     *)
(* transform matrix is 1 x 1.  Real numbers are exact rationals <<n, d>>;  *)
(* the step-size is a float64 abstraction (zero, or a power of two).       *)
(* The distribution mean of LMMAES/XNES only feeds the argument of the     *)
(* fitness function, whose value is an input here, so it is not kept.      *)
(***************************************************************************)
EXTENDS Integers, Sequences, FiniteSets, TLC

\* ------------------------------------------------------------------ bounds
MaxEvaluations == 4      \* largest max_function_evaluations tried
MaxIndividuals == 2      \* largest n_individuals tried
MaxPaths == 1            \* n_evolution_paths (m in Algorithm 1)

\* ------------------------------------------------------------------ inputs
ndim_problem == 1
Noise == {0, 2}                     \* draws of standard_normal
FitVals == {0, 1}                  \* values the fitness function returns
FloatMinExp == -1074               \* binary exponent of the least float64 > 0
FloatMaxExp == 1023                \* binary exponent of the largest float64

\* -------------------------------------------------------- exact rationals
\* A rational is a pair <<n, d>> in lowest terms with d > 0.  The
\* arithmetic is written as functions so that every operand is evaluated
\* once, as Python evaluates the operands of a float operation.
Abs(n) == IF n < 0 THEN -n ELSE n

GcdF[m \in Nat, n \in Nat] == IF n = 0 THEN m ELSE GcdF[n, m % n]

RatF[n \in Int, d \in Int] ==
    LET g == GcdF[Abs(n), Abs(d)]
        sg == IF d < 0 THEN -1 ELSE 1
    IN  <<(sg * n) \div g, (sg * d) \div g>>

Rat(n, d) == RatF[n, d]

Q == Int \X Int
Zero == <<0, 1>>
One == <<1, 1>>
Half == <<1, 2>>
None == <<>>                       \* Python None / an absent option

RAddF[p \in Q, q \in Q] == RatF[p[1] * q[2] + q[1] * p[2], p[2] * q[2]]
RSubF[p \in Q, q \in Q] == RatF[p[1] * q[2] - q[1] * p[2], p[2] * q[2]]
RMulF[p \in Q, q \in Q] == RatF[p[1] * q[1], p[2] * q[2]]
RDivF[p \in Q, q \in Q] == RatF[p[1] * q[2], p[2] * q[1]]
RLtF[p \in Q, q \in Q] == p[1] * q[2] < q[1] * p[2]

RAdd(p, q) == RAddF[p, q]
RSub(p, q) == RSubF[p, q]
RMul(p, q) == RMulF[p, q]
RDiv(p, q) == RDivF[p, q]
RLt(p, q) == RLtF[p, q]

PowF[b \in Int, j \in Nat] == IF j = 0 THEN 1 ELSE b * PowF[b, j - 1]
Pow(b, j) == PowF[b, j]

\* floor of the square root of a natural number
ISqrtF[n \in Nat] == CHOOSE r \in 0..n : r * r <= n /\ (r + 1) * (r + 1) > n

\* np.sqrt of a non-negative rational: sqrt(n/d) = sqrt(n*d)/d, exact when
\* n*d is a perfect square and rounded down to a multiple of 1/d otherwise
RSqrtF[p \in Q] == RatF[ISqrtF[p[1] * p[2]], p[2]]
RSqrt(p) == RSqrtF[p]

\* the sum f[1] + ... + f[n]
RECURSIVE SumTo(_, _)
SumTo(f, n) == IF n = 0 THEN Zero ELSE RAdd(SumTo(f, n - 1), f[n])

Min(a, b) == IF a < b THEN a ELSE b

\* ------------------------------------------------- float64 step-size values
\* A step-size is 0.0, inf, or 2^e: only the binary exponent is kept.
FZero == [pos |-> FALSE, e |-> 0]
F(e) == [pos |-> TRUE, e |-> e]
FInf == F(FloatMaxExp + 1)

\* the float64 nearest 2^e: underflows to 0.0, overflows to inf
FRound(e) ==
    IF e < FloatMinExp THEN FZero
    ELSE IF e > FloatMaxExp THEN FInf
    ELSE F(e)

\* float product
FMul(f, g) ==
    IF ~f.pos \/ ~g.pos THEN FZero
    ELSE IF f = FInf \/ g = FInf THEN FInf
    ELSE FRound(f.e + g.e)

\* np.exp(x) for a rational x: 2^floor(x * log2(e)), log2(e) ~ 13/9
FExp(x) == FRound((x[1] * 13) \div (x[2] * 9))

FLt(f, g) == IF ~g.pos THEN FALSE ELSE IF ~f.pos THEN TRUE ELSE f.e < g.e
FMax(f, g) == IF FLt(f, g) THEN g ELSE f

\* float to rational, for the small exponents SRS produces
FToRat(f) ==
    IF ~f.pos THEN Zero
    ELSE IF f.e >= 0 THEN <<Pow(2, f.e), 1>> ELSE <<1, Pow(2, -f.e)>>

\* np.log, to three decimals, at the arguments XNES uses
NpLog(q) ==
    CASE q = <<1, 1>> -> Zero
      [] q = <<3, 2>> -> Rat(405, 1000)
      [] q = <<2, 1>> -> Rat(693, 1000)
      [] q = <<5, 2>> -> Rat(916, 1000)
      [] q = <<3, 1>> -> Rat(1099, 1000)
      [] q = <<7, 2>> -> Rat(1253, 1000)
      [] q = <<4, 1>> -> Rat(1386, 1000)

\* ------------------------------------------------------------------- state
VARIABLES
    options,                 \* the options dict and the optimizer class
    pc,                      \* position in optimize()
    n_function_evaluations,  \* Optimizer.n_function_evaluations
    n_generations,           \* Optimizer._n_generations
    best_so_far_y,           \* Optimizer.best_so_far_y (None: np.Inf)
    best_so_far_x,           \* Optimizer.best_so_far_x (kept for SRS)
    expired,                 \* runtime >= max_runtime has been observed
    fitness,                 \* the fitness trace of optimize()
    report,                  \* last record given to _print_verbose_info
    sigma,                   \* self.sigma
    k,                       \* loop index of iterate()
    x,                       \* XNES: offspring population; SRS: the point
    z, d, y,                 \* LMMAES noise, directions; fitness buffer
    s, tm,                   \* LMMAES evolution path / transformation matrix
    c_s, s_1, s_2,           \* LMMAES.c_s, _s_1, _s_2
    a, inv_a, log_det,       \* XNES transform (kept as logarithms of a 1x1)
    n_sampled,               \* candidates evaluated by the current iterate()
    fresh,                   \* initialize() ran since the last update
    consulted,               \* the last restart step evaluated the criterion
    restarted,               \* the last restart step reinitialized
    last_eval_stop,          \* a stop condition held when the last
                             \* evaluation was issued
    drawn,                   \* SRS: delta_x and probability of the last
                             \* iterate()
    ranked                   \* the order the last _update_distribution
                             \* got from np.argsort (None once it returned
                             \* and the restart step has run)

vars == <<options, pc, n_function_evaluations, n_generations, best_so_far_y,
          best_so_far_x, expired, fitness, report, sigma, k, x, z, d, y, s,
          tm, c_s, s_1, s_2, a, inv_a, log_det, n_sampled, fresh,
          consulted, restarted, last_eval_stop, drawn, ranked>>

runVars == <<n_function_evaluations, best_so_far_y, best_so_far_x,
             last_eval_stop>>
lmVars == <<z, d, s, tm, c_s, s_1, s_2>>
xnVars == <<a, inv_a, log_det>>

Unset == <<>>                      \* an np.empty cell never written

\* ----------------------------------------------- base classes (Optimizer)
\* the evaluation-budget and fitness-threshold stop conditions
StopHolds(evals, best) ==
    \/ evals >= options.max_function_evaluations
    \/ (best # None /\ best[1] <= options.fitness_threshold)

\* Optimizer._check_terminations, given the runtime observation e
\* (e: runtime >= max_runtime)
CheckTerminations(evals, best, e) == StopHolds(evals, best) \/ e

\* runtime observations possible at a check: the clock only moves forward
Clock == IF expired THEN {TRUE}
         ELSE IF options.max_runtime_finite THEN BOOLEAN ELSE {FALSE}

\* Optimizer._evaluate_fitness: best-so-far after seeing the value v
BestAfter(best, v) == IF best = None \/ v < best[1] THEN <<v>> ELSE best

\* Optimizer._evaluate_fitness: one evaluation, at the point p, returning v
EvaluateFitness(p, v) ==
    /\ n_function_evaluations' = n_function_evaluations + 1
    /\ best_so_far_y' = BestAfter(best_so_far_y, v)
    /\ best_so_far_x' = IF best_so_far_y = None \/ v < best_so_far_y[1]
                        THEN p ELSE best_so_far_x
    /\ last_eval_stop' = StopHolds(n_function_evaluations, best_so_far_y)

\* _print_verbose_info: the progress record
PrintVerboseInfo(gen, evals) == <<gen, evals>>

\* a buffer read with np.empty cells replaced by arbitrary values
Readings(buf, n) ==
    {r \in [1..n -> FitVals] : \A i \in 1..n : buf[i] # Unset => r[i] = buf[i][1]}

\* ES recombination weights _w (non-increasing, summing to 1) and _mu_eff
ES_w(mu) == [i \in 1..mu |-> Rat(2 * (mu + 1 - i), mu * (mu + 1))]
ES_mu_eff(mu) ==
    RDiv(One, SumTo([i \in 1..mu |-> RMul(ES_w(mu)[i], ES_w(mu)[i])], mu))

\* ES.restart_initialize / NES.restart_reinitialize: the restart criterion
\* (an input); a restart resets the step-size to its initial value
RestartCriterion(criterion) ==
    [is_restart |-> criterion,
     sigma |-> IF criterion THEN options.sigma ELSE sigma]

\* np.argsort returning the keys in descending order
ArgSorts_descending(key, n) ==
    {o \in [1..n -> 1..n] :
        /\ \A i, j \in 1..n : i # j => o[i] # o[j]
        /\ \A i \in 1..(n - 1) : key[o[i]] >= key[o[i + 1]]}

\* orders np.argsort may return for the keys key[1..n]
ArgSorts(key, n) ==
    {o \in [1..n -> 1..n] :
        /\ \A i, j \in 1..n : i # j => o[i] # o[j]
        /\ \A i \in 1..(n - 1) : key[o[i]] <= key[o[i + 1]]}

\* ------------------------------------------------------------------ LMMAES
\* self._c_d[j] = 1 / (ndim_problem * 1.5^j), j = 0, 1, ...
LMMAES_c_d(j) == Rat(Pow(2, j), ndim_problem * Pow(3, j))

\* self._c_c[j] = n_individuals / (ndim_problem * 4^j)
LMMAES_c_c(j) == Rat(options.n_individuals, ndim_problem * Pow(4, j))

\* options.get('c_s', 2 * n_individuals / ndim_problem)
LMMAES_c_s ==
    IF options.c_s = None THEN Rat(2 * options.n_individuals, ndim_problem)
    ELSE options.c_s[1]

\* the "1 - c" smoothing factor taken as it is, negative or not
Clamp1_no_fallback(c) == RSub(One, c)

\* the "1 - c" smoothing factor with its fallback
Clamp1(c) == IF RLt(RSub(One, c), Zero) THEN Half ELSE RSub(One, c)

\* mu_eff * c * (2 - c) with its fallback
Clamp2(c) ==
    LET v == RMul(ES_mu_eff(options.n_parents), RMul(c, RSub(<<2, 1>>, c)))
    IN  IF RLt(v, Zero) THEN RMul(Half, Half) ELSE v

\* the fields and buffers LMMAES.initialize sets
LMMAES_initialize ==
    [c_s |-> LMMAES_c_s,
     s_1 |-> Clamp1(LMMAES_c_s),
     s_2 |-> RSqrt(Clamp2(LMMAES_c_s)),
     z |-> [i \in 1..options.n_individuals |-> Unset],
     d |-> [i \in 1..options.n_individuals |-> Unset],
     s |-> Zero,
     tm |-> [j \in 1..options.n_evolution_paths |-> Zero],
     y |-> [i \in 1..options.n_individuals |-> Unset]]

\* the inner loop of iterate: d[k] after blending with tm[0..n-1]
RECURSIVE LMMAES_direction(_, _, _)
LMMAES_direction(zk, t, n) ==
    IF n = 0 THEN zk
    ELSE LET dk == LMMAES_direction(zk, t, n - 1)
             c == LMMAES_c_d(n - 1)
         IN  RAdd(RMul(RSub(One, c), dk),
                  RMul(RMul(c, t[n]), RMul(t[n], dk)))

\* the state _update_distribution leaves, for the ranking order
LMMAES_update_distribution(order) ==
    LET mu == options.n_parents
        w == ES_w(mu)
        d_w == SumTo([i \in 1..mu |-> RMul(w[i], d[order[i]])], mu)
        z_w == SumTo([i \in 1..mu |-> RMul(w[i], z[order[i]])], mu)
        ns == RAdd(RMul(s_1, s), RMul(s_2, z_w))
        ntm == [j \in 1..options.n_evolution_paths |->
                  RAdd(RMul(Clamp1(LMMAES_c_c(j - 1)), tm[j]),
                       RMul(RSqrt(Clamp2(LMMAES_c_c(j - 1))), z_w))]
        e == RMul(RMul(c_s, Half),
                  RSub(RDiv(RMul(ns, ns), <<ndim_problem, 1>>), One))
    IN  [s |-> ns, tm |-> ntm, sigma |-> FMul(sigma, FExp(e))]

\* line 89: z, d, mean, s, tm, y = self.initialize()
LMMAES_Initialize ==
    /\ options.class = "LMMAES" /\ pc = "initialize"
    /\ LET r == LMMAES_initialize IN
        /\ c_s' = r.c_s /\ s_1' = r.s_1 /\ s_2' = r.s_2
        /\ z' = r.z /\ d' = r.d /\ s' = r.s /\ tm' = r.tm /\ y' = r.y
    /\ fresh' = TRUE /\ k' = 0 /\ n_sampled' = 0
    /\ pc' = "iterate"
    /\ UNCHANGED <<drawn, ranked>>
    /\ UNCHANGED <<options, runVars, n_generations, expired, fitness, report,
                   sigma, x, xnVars, consulted, restarted>>

\* lines 50-57: one pass of the for loop of iterate
LMMAES_Iterate ==
    /\ options.class = "LMMAES" /\ pc = "iterate"
    /\ \E e \in Clock :
        /\ expired' = e
        /\ IF CheckTerminations(n_function_evaluations, best_so_far_y, e)
           THEN /\ pc' = "record"
                /\ UNCHANGED <<z, d, y, k, n_sampled, runVars>>
           ELSE \E zk \in Noise, v \in FitVals :
                /\ z' = [z EXCEPT ![k + 1] = <<zk, 1>>]
                /\ d' = [d EXCEPT ![k + 1] =
                           LMMAES_direction(<<zk, 1>>, tm,
                               Min(n_generations, options.n_evolution_paths))]
                /\ y' = [y EXCEPT ![k + 1] = <<v>>]
                /\ EvaluateFitness(None, v)
                /\ k' = k + 1
                /\ n_sampled' = n_sampled + 1
                /\ pc' = IF k + 1 = options.n_individuals
                         THEN "record" ELSE "iterate"
    /\ UNCHANGED <<drawn, ranked>>
    /\ UNCHANGED <<options, n_generations, fitness, report, sigma, x, s, tm,
                   c_s, s_1, s_2, xnVars, fresh, consulted, restarted>>

\* lines 92-93: if self.record_fitness: fitness.extend(y)
LMMAES_Record ==
    /\ options.class = "LMMAES" /\ pc = "record"
    /\ IF options.record_fitness
       THEN \E r \in Readings(y, options.n_individuals) :
                fitness' = fitness \o r
       ELSE fitness' = fitness
    /\ pc' = "check"
    /\ UNCHANGED <<drawn, ranked>>
    /\ UNCHANGED <<options, runVars, n_generations, expired, report, sigma,
                   k, x, y, lmVars, xnVars, n_sampled, fresh, consulted,
                   restarted>>

\* LMMAES_Check with the break of lines 94-95 left out
LMMAES_Check_no_break ==
    /\ options.class = "LMMAES" /\ pc = "check"
    /\ \E e \in Clock : expired' = e
    /\ pc' = "update"
    /\ UNCHANGED <<drawn, ranked>>
    /\ UNCHANGED <<options, runVars, n_generations, fitness, report, sigma,
                   k, x, y, lmVars, xnVars, n_sampled, fresh, consulted,
                   restarted>>

\* lines 94-95: if self._check_terminations(): break
LMMAES_Check ==
    /\ options.class = "LMMAES" /\ pc = "check"
    /\ \E e \in Clock :
        /\ expired' = e
        /\ pc' = IF CheckTerminations(n_function_evaluations, best_so_far_y, e)
                 THEN "collect" ELSE "update"
    /\ UNCHANGED <<drawn, ranked>>
    /\ UNCHANGED <<options, runVars, n_generations, fitness, report, sigma,
                   k, x, y, lmVars, xnVars, n_sampled, fresh, consulted,
                   restarted>>

\* lines 96-98: _update_distribution, _n_generations += 1, verbose info
LMMAES_Update ==
    /\ options.class = "LMMAES" /\ pc = "update"
    /\ \E order \in ArgSorts([i \in 1..options.n_individuals |-> y[i][1]],
                             options.n_individuals) :
        LET r == LMMAES_update_distribution(order) IN
        /\ s' = r.s /\ tm' = r.tm /\ sigma' = r.sigma
        /\ ranked' = order
    /\ n_generations' = n_generations + 1
    /\ report' = PrintVerboseInfo(n_generations + 1, n_function_evaluations)
    /\ fresh' = FALSE
    /\ pc' = "restart"
    /\ UNCHANGED drawn
    /\ UNCHANGED <<options, runVars, expired, fitness, k, x, z, d, y, c_s,
                   s_1, s_2, xnVars, n_sampled, consulted, restarted>>

\* LMMAES_Restart with a restart that also starts the generation count anew
LMMAES_Restart_counter_reset ==
    /\ options.class = "LMMAES" /\ pc = "restart"
    /\ \E criterion \in BOOLEAN :
        LET b == RestartCriterion(criterion) IN
        /\ sigma' = b.sigma
        /\ consulted' = TRUE
        /\ restarted' = b.is_restart
        /\ IF b.is_restart
           THEN LET r == LMMAES_initialize IN
                /\ c_s' = r.c_s /\ s_1' = r.s_1 /\ s_2' = r.s_2
                /\ z' = r.z /\ d' = r.d /\ s' = r.s /\ tm' = r.tm /\ y' = r.y
                /\ fresh' = TRUE
                /\ n_generations' = 0
           ELSE UNCHANGED <<lmVars, y, fresh, n_generations>>
    /\ k' = 0 /\ n_sampled' = 0
    /\ ranked' = None
    /\ pc' = "iterate"
    /\ UNCHANGED drawn
    /\ UNCHANGED <<options, runVars, expired, fitness, report, x, xnVars>>

\* lines 82-85 and 99: restart_initialize
LMMAES_Restart ==
    /\ options.class = "LMMAES" /\ pc = "restart"
    /\ \E criterion \in BOOLEAN :
        LET b == RestartCriterion(criterion) IN
        /\ sigma' = b.sigma
        /\ consulted' = TRUE
        /\ restarted' = b.is_restart
        /\ IF b.is_restart
           THEN LET r == LMMAES_initialize IN
                /\ c_s' = r.c_s /\ s_1' = r.s_1 /\ s_2' = r.s_2
                /\ z' = r.z /\ d' = r.d /\ s' = r.s /\ tm' = r.tm /\ y' = r.y
                /\ fresh' = TRUE
           ELSE UNCHANGED <<lmVars, y, fresh>>
    /\ k' = 0 /\ n_sampled' = 0
    /\ ranked' = None
    /\ pc' = "iterate"
    /\ UNCHANGED drawn
    /\ UNCHANGED <<options, runVars, n_generations, expired, fitness, report,
                   x, xnVars>>

\* lines 100-103: results = self._collect_results(fitness, mean)
LMMAES_Collect ==
    /\ options.class = "LMMAES" /\ pc = "collect"
    /\ pc' = "done"
    /\ UNCHANGED <<drawn, ranked>>
    /\ UNCHANGED <<options, runVars, n_generations, expired, fitness, report,
                   sigma, k, x, y, lmVars, xnVars, n_sampled, fresh, consulted,
                   restarted>>

\* -------------------------------------------------------------------- XNES
\* lr_cv = lr_sigma = 0.6 * (3 + log(ndim)) / ndim / sqrt(ndim)
XNES_lr ==
    RDiv(RDiv(RMul(Rat(6, 10), RAdd(<<3, 1>>, NpLog(<<ndim_problem, 1>>))),
              <<ndim_problem, 1>>),
         RSqrt(<<ndim_problem, 1>>))

\* np.eye(ndim_problem), as the logarithm of a 1 x 1 matrix
XNES_eye == Zero

\* self._w = maximum(0, log(n/2 + 1) - log(n - arange(n)))
XNES_w(n) ==
    [i \in 1..n |->
        LET v == RSub(NpLog(Rat(n + 2, 2)), NpLog(<<n - (i - 1), 1>>))
        IN  IF RLt(v, Zero) THEN Zero ELSE v]

\* the buffers returned by XNES.initialize
XNES_initialize ==
    [x |-> [i \in 1..options.n_individuals |-> Unset],
     y |-> [i \in 1..options.n_individuals |-> Unset],
     a |-> XNES_eye,
     inv_a |-> XNES_eye,
     log_det |-> Zero]

\* expm(e) * v for a 1 x 1 logarithm e; only the products the run
\* forms (expm(0) * v and expm(e) * 0) have a rational value
ExpmDot(e, v) ==
    IF e = Zero \/ v = Zero THEN v ELSE CHOOSE r \in {} : TRUE

\* lines 52-56: utilities u from the order argsort(-y) returned
XNES_utilities(order) ==
    LET n == options.n_individuals
        w == XNES_w(n)
        u0 == [o \in 1..n |-> w[CHOOSE i \in 1..n : order[i] = o]]
        total == SumTo(u0, n)
    IN  [o \in 1..n |-> RSub(RDiv(u0[o], total), Rat(1, n))]

\* the state _update_distribution leaves, for the ranking order
XNES_update_distribution(order) ==
    LET n == options.n_individuals
        u == XNES_utilities(order)
        \* s[k] = inv_a (x[k] - mean), with x[k] - mean = expm(x[k][1]) noise
        sk == [i \in 1..n |-> ExpmDot(RAdd(inv_a, x[i][1]), x[i][2])]
        g_cv == SumTo([i \in 1..n |->
                    RMul(u[i], RSub(RMul(sk[i], sk[i]), One))], n)
        trace == g_cv
        g_cv0 == RSub(g_cv, RDiv(trace, <<ndim_problem, 1>>))
        d_a == RMul(Half,
                    RAdd(RDiv(RMul(XNES_lr, trace), <<ndim_problem, 1>>),
                         RMul(XNES_lr, g_cv0)))
    IN  [a |-> RAdd(a, d_a),
         inv_a |-> RSub(inv_a, d_a),
         log_det |-> RAdd(log_det, RMul(RMul(Half, XNES_lr), trace))]

\* line 78: x, y, mean, a, inv_a, log_det = self.initialize()
XNES_Initialize ==
    /\ options.class = "XNES" /\ pc = "initialize"
    /\ LET r == XNES_initialize IN
        /\ x' = r.x /\ y' = r.y
        /\ a' = r.a /\ inv_a' = r.inv_a /\ log_det' = r.log_det
    /\ fresh' = TRUE /\ k' = 0 /\ n_sampled' = 0
    /\ pc' = "iterate"
    /\ UNCHANGED <<drawn, ranked>>
    /\ UNCHANGED <<options, runVars, n_generations, expired, fitness, report,
                   sigma, lmVars, consulted, restarted>>

\* lines 43-49: one pass of the for loop of iterate
XNES_Iterate ==
    /\ options.class = "XNES" /\ pc = "iterate"
    /\ \E e \in Clock :
        /\ expired' = e
        /\ IF CheckTerminations(n_function_evaluations, best_so_far_y, e)
           THEN /\ pc' = "check"
                /\ UNCHANGED <<x, y, k, n_sampled, runVars>>
           ELSE \E zk \in Noise, v \in FitVals :
                /\ x' = [x EXCEPT ![k + 1] = <<a, <<zk, 1>>>>]
                /\ y' = [y EXCEPT ![k + 1] = <<v>>]
                /\ EvaluateFitness(None, v)
                /\ k' = k + 1
                /\ n_sampled' = n_sampled + 1
                /\ pc' = IF k + 1 = options.n_individuals
                         THEN "check" ELSE "iterate"
    /\ UNCHANGED <<drawn, ranked>>
    /\ UNCHANGED <<options, n_generations, fitness, report, sigma, lmVars,
                   xnVars, fresh, consulted, restarted>>

\* lines 81-83: if self._check_terminations(): break; verbose info
XNES_Check ==
    /\ options.class = "XNES" /\ pc = "check"
    /\ \E e \in Clock :
        /\ expired' = e
        /\ IF CheckTerminations(n_function_evaluations, best_so_far_y, e)
           THEN pc' = "collect" /\ report' = report
           ELSE /\ pc' = "update"
                /\ report' = PrintVerboseInfo(n_generations,
                                              n_function_evaluations)
    /\ UNCHANGED <<drawn, ranked>>
    /\ UNCHANGED <<options, runVars, n_generations, fitness, sigma, k, x, y,
                   lmVars, xnVars, n_sampled, fresh, consulted, restarted>>

\* lines 84-85: _update_distribution, _n_generations += 1
XNES_Update ==
    /\ options.class = "XNES" /\ pc = "update"
    /\ \E order \in ArgSorts([i \in 1..options.n_individuals |-> -y[i][1]],
                             options.n_individuals) :
        LET r == XNES_update_distribution(order) IN
        /\ a' = r.a /\ inv_a' = r.inv_a /\ log_det' = r.log_det
        /\ ranked' = order
    /\ n_generations' = n_generations + 1
    /\ fresh' = FALSE
    /\ pc' = "restart"
    /\ UNCHANGED drawn
    /\ UNCHANGED <<options, runVars, expired, fitness, report, sigma, k, x,
                   y, lmVars, n_sampled, consulted, restarted>>

\* lines 71-74 and 86: restart_reinitialize
XNES_Restart ==
    /\ options.class = "XNES" /\ pc = "restart"
    /\ \E criterion \in (IF options.is_restart THEN BOOLEAN ELSE {FALSE}) :
        LET b == RestartCriterion(criterion) IN
        /\ sigma' = b.sigma
        /\ consulted' = options.is_restart
        /\ restarted' = b.is_restart
        /\ IF b.is_restart
           THEN LET r == XNES_initialize IN
                /\ x' = r.x /\ y' = r.y
                /\ a' = r.a /\ inv_a' = r.inv_a /\ log_det' = r.log_det
                /\ fresh' = TRUE
           ELSE UNCHANGED <<x, y, xnVars, fresh>>
    /\ k' = 0 /\ n_sampled' = 0
    /\ ranked' = None
    /\ pc' = "iterate"
    /\ UNCHANGED drawn
    /\ UNCHANGED <<options, runVars, n_generations, expired, fitness, report,
                   lmVars>>

\* line 87: return self._collect(fitness, y, mean)
XNES_Collect ==
    /\ options.class = "XNES" /\ pc = "collect"
    /\ pc' = "done"
    /\ UNCHANGED <<drawn, ranked>>
    /\ UNCHANGED <<options, runVars, n_generations, expired, fitness, report,
                   sigma, k, x, y, lmVars, xnVars, n_sampled, fresh,
                   consulted, restarted>>

\* --------------------------------------------------------------------- SRS
Uniform == {Zero, <<3, 4>>}        \* draws of rng_optimization.uniform()

\* iterate moving toward the best-so-far point of before the evaluation
SRS_move_stale_best(point, delta_x, probability, best_x) ==
    IF RLt(probability, options.beta)
    THEN RAdd(point, RMul(options.alpha, delta_x))
    ELSE RAdd(point, RMul(options.alpha, RSub(best_so_far_x, point)))

\* lines 126-134: the point iterate leaves, for the perturbation delta_x,
\* the uniform draw and the best-so-far point after the evaluation
SRS_move(point, delta_x, probability, best_x) ==
    IF RLt(probability, options.beta)
    THEN RAdd(point, RMul(options.alpha, delta_x))
    ELSE RAdd(point, RMul(options.alpha, RSub(best_x, point)))

\* line 143: self.sigma = np.maximum(self.gamma * self.sigma, self.min_sigma)
SRS_sigma(sg) == FMax(FMul(options.gamma, sg), options.min_sigma)

\* lines 118-124 and 137-140: initialize, fitness.append(y), verbose info
SRS_Initialize ==
    /\ options.class = "SRS" /\ pc = "initialize"
    /\ \E v \in FitVals :
        /\ x' = options.x
        /\ y' = <<v>>
        /\ EvaluateFitness(options.x, v)
        /\ fitness' = Append(fitness, v)
        /\ report' = PrintVerboseInfo(n_generations, n_function_evaluations')
    /\ n_sampled' = 1
    /\ pc' = "iterate"
    /\ UNCHANGED <<drawn, ranked>>
    /\ UNCHANGED <<options, n_generations, expired, sigma, k, lmVars, xnVars,
                   fresh, consulted, restarted>>

\* lines 142-145: iterate, step-size decay, fitness recording
SRS_Iterate ==
    /\ options.class = "SRS" /\ pc = "iterate"
    /\ \E zk \in Noise, v \in FitVals, probability \in Uniform :
        LET delta_x == RMul(FToRat(sigma), <<zk, 1>>) IN
        /\ y' = <<v>>
        /\ EvaluateFitness(RAdd(x, delta_x), v)
        /\ x' = SRS_move(x, delta_x, probability, best_so_far_x')
        /\ drawn' = [delta_x |-> delta_x, probability |-> probability]
        /\ fitness' = IF options.record_fitness
                      THEN Append(fitness, v) ELSE fitness
    /\ sigma' = SRS_sigma(sigma)
    /\ n_sampled' = 1
    /\ pc' = "check"
    /\ UNCHANGED <<options, n_generations, expired, report, k, lmVars, xnVars,
                   fresh, consulted, restarted, ranked>>

\* lines 146-149: termination check, _n_generations += 1, verbose info
SRS_Check ==
    /\ options.class = "SRS" /\ pc = "check"
    /\ \E e \in Clock :
        /\ expired' = e
        /\ IF CheckTerminations(n_function_evaluations, best_so_far_y, e)
           THEN pc' = "collect" /\ UNCHANGED <<n_generations, report>>
           ELSE /\ pc' = "iterate"
                /\ n_generations' = n_generations + 1
                /\ report' = PrintVerboseInfo(n_generations + 1,
                                              n_function_evaluations)
    /\ UNCHANGED <<drawn, ranked>>
    /\ UNCHANGED <<options, runVars, fitness, sigma, k, x, y, lmVars, xnVars,
                   n_sampled, fresh, consulted, restarted>>

\* line 150: return self._collect_results(fitness)
SRS_Collect ==
    /\ options.class = "SRS" /\ pc = "collect"
    /\ pc' = "done"
    /\ UNCHANGED <<drawn, ranked>>
    /\ UNCHANGED <<options, runVars, n_generations, expired, fitness, report,
                   sigma, k, x, y, lmVars, xnVars, n_sampled, fresh,
                   consulted, restarted>>

\* ------------------------------------------------------------ specification
Common ==
    [max_function_evaluations : 0..MaxEvaluations,
     max_runtime_finite : BOOLEAN,
     fitness_threshold : {-1, 0},
     record_fitness : BOOLEAN]

PopulationOptions ==
    {o \in [n_individuals : 1..MaxIndividuals,
            n_parents : 1..MaxIndividuals,
            is_restart : BOOLEAN] : o.n_parents <= o.n_individuals}

Merge(f, g) == [n \in (DOMAIN f) \cup (DOMAIN g) |->
                  IF n \in DOMAIN f THEN f[n] ELSE g[n]]

LMMAES_Options ==
    [class : {"LMMAES"}, n_evolution_paths : {MaxPaths},
     c_s : {None, <<(<<2000, 1>>)>>}, sigma : {F(0)}]

\* XNES.__init__ sets options['sigma'] = np.Inf
XNES_Options == [class : {"XNES"}, sigma : {FInf}]

SRS_Options ==
    [class : {"SRS"}, x : {<<3, 1>>}, sigma : {F(0)}, alpha : {Rat(3, 10)},
     beta : {Zero, Half, One}, gamma : {FZero, F(-1)}, min_sigma : {F(-2)}]

Options ==
    {Merge(c, Merge(p, v)) :
        c \in Common, p \in PopulationOptions,
        v \in LMMAES_Options \cup XNES_Options}
    \cup {Merge(c, v) : c \in Common, v \in SRS_Options}

\* the state after construction, for the options dict drawn from opts
Constructed(opts) ==
    /\ options \in opts
    /\ pc = "initialize"
    /\ n_function_evaluations = 0
    /\ n_generations = 0
    /\ best_so_far_y = None
    /\ best_so_far_x = None
    /\ expired = FALSE
    /\ fitness = <<>>
    /\ report = None
    /\ sigma = options.sigma
    /\ k = 0
    /\ x = None /\ z = None /\ d = None /\ y = None
    /\ s = None /\ tm = None /\ c_s = None /\ s_1 = None /\ s_2 = None
    /\ a = None /\ inv_a = None /\ log_det = None
    /\ n_sampled = 0
    /\ fresh = FALSE
    /\ consulted = FALSE
    /\ restarted = FALSE
    /\ last_eval_stop = FALSE
    /\ drawn = None
    /\ ranked = None

Init == Constructed(Options)

Next ==
    \/ LMMAES_Initialize
    \/ LMMAES_Iterate
    \/ LMMAES_Record
    \/ LMMAES_Check
    \/ LMMAES_Update
    \/ LMMAES_Restart
    \/ LMMAES_Collect
    \/ XNES_Initialize
    \/ XNES_Iterate
    \/ XNES_Check
    \/ XNES_Update
    \/ XNES_Restart
    \/ XNES_Collect
    \/ SRS_Initialize
    \/ SRS_Iterate
    \/ SRS_Check
    \/ SRS_Collect

Spec == Init /\ [][Next]_vars
\* the runs checked for termination: the options that only steer the
\* fitness trace, the step-size and the SRS point are held fixed
InitLive ==
    /\ Init
    /\ ~options.record_fitness
    /\ options.class = "LMMAES" => options.c_s = None
    /\ options.class = "SRS" => (options.beta = Half /\ options.gamma = F(-1))

\* the fairness of a sequential program: it keeps running while it can
LiveSpec == InitLive /\ [][Next]_vars /\ WF_vars(Next)

\* the runs checked for the clamps of LMMAES: c_s also takes a value below
\* 1 and a negative one; the options that steer neither c_s nor c_c are
\* held fixed
ClampOptions ==
    LET held == {o \in Options :
                    /\ ~o.record_fitness /\ ~o.max_runtime_finite
                    /\ o.fitness_threshold = -1
                    /\ o.class = "XNES" => ~o.is_restart
                    /\ o.class = "SRS" =>
                          (o.beta = Half /\ o.gamma = F(-1))}
    IN  held \cup {[o EXCEPT !.c_s = <<c>>] :
                      o \in {h \in held : h.class = "LMMAES"},
                      c \in {Rat(1, 4), Rat(-1, 1)}}

InitClamp == Constructed(ClampOptions)

ClampSpec == InitClamp /\ [][Next]_vars

\* ------------------------------------------------------------------ claims
Population == IF options.class = "SRS" THEN 1 ELSE options.n_individuals
IsPopulationBased == options.class \in {"LMMAES", "XNES"}

\* C1: when optimize() returns, the number of fitness evaluations is at
\* most max_function_evaluations + (n_individuals - 1), SRS counting as
\* n_individuals = 1.
C1_OvershootBound ==
    pc = "done" =>
        n_function_evaluations
            <= options.max_function_evaluations + (Population - 1)

\* C2: no fitness evaluation is issued in a state where the evaluation
\* budget is already used up or the fitness threshold already reached.
C2_NoEvaluationAfterStop == ~last_eval_stop

\* C3: in LMMAES and XNES the distribution update only ever sees a
\* population all of whose n_individuals candidates were sampled and
\* evaluated in the current generation.
C3_UpdateSeesFullPopulation ==
    (IsPopulationBased /\ pc = "update") =>
        /\ n_sampled = options.n_individuals
        /\ \A i \in 1..options.n_individuals : y[i] # Unset

\* an iterate() that returned early after a completed generation, followed
\* by the break of the optimize loop
C3_Witness ==
    /\ IsPopulationBased /\ pc = "collect"
    /\ n_generations >= 1
    /\ n_sampled >= 1 /\ n_sampled < options.n_individuals

\* C4: in LMMAES and XNES no step lowers the generation counter or the
\* evaluation counter; the restart step leaves both as they are, a
\* completed generation adds one to the generation counter, and the
\* evaluations made after a restart stay within max_function_evaluations.
C4_CountersSurviveRestart ==
    /\ [](IsPopulationBased =>
            n_function_evaluations <= options.max_function_evaluations)
    /\ [][IsPopulationBased =>
            /\ n_generations' >= n_generations
            /\ n_function_evaluations' >= n_function_evaluations
            /\ (pc = "restart" =>
                  /\ n_generations' = n_generations
                  /\ n_function_evaluations' = n_function_evaluations)
            /\ (pc = "update" => n_generations' = n_generations + 1)]_vars

\* a generation completed after a restart, the counters still growing
C4_Witness ==
    /\ IsPopulationBased /\ pc = "restart" /\ restarted
    /\ n_generations >= 2
    /\ n_function_evaluations >= 2

\* C5: with the restart flag disabled, LMMAES and XNES never evaluate the
\* restart criterion and never reinitialize the search distribution.
C5_RestartOnlyIfEnabled ==
    (IsPopulationBased /\ ~options.is_restart) => (~consulted /\ ~restarted)

\* C6: after a restart the distribution the next generation samples from
\* is the neutral one: the step-size has its initial value; in LMMAES
\* s = 0, every tm = 0 and each direction sampled equals its noise
\* vector; in XNES a = inv_a = I and log_det = 0.
C6_RestartIsNeutral ==
    (IsPopulationBased /\ restarted /\ fresh) =>
        /\ sigma = options.sigma
        /\ options.class = "LMMAES" =>
              /\ s = Zero
              /\ \A j \in 1..options.n_evolution_paths : tm[j] = Zero
              /\ \A i \in 1..n_sampled : d[i] = z[i]
        /\ options.class = "XNES" =>
              /\ a = XNES_eye /\ inv_a = XNES_eye /\ log_det = Zero

\* C7: the step-size is strictly positive in every reachable state.
C7_SigmaPositive == sigma.pos

\* C8: with a finite evaluation budget optimize() eventually returns, and
\* every pass of its loop that goes on to another pass has made at least
\* one fitness evaluation.
C8_Terminates ==
    /\ <>(pc = "done")
    /\ [](pc = "update" => n_sampled >= 1)
    /\ [][(pc = "check" /\ pc' = "iterate") => n_sampled >= 1]_vars

\* a run with a restart that has returned
C8_Witness ==
    /\ pc = "done" /\ restarted
    /\ n_function_evaluations = options.max_function_evaluations

\* C9: in SRS every progress report has evaluations = generation + 1, and
\* when the evaluation budget stops the run the returned
\* n_function_evaluations equals max_function_evaluations.
C9_SRSCounts ==
    options.class = "SRS" =>
        /\ report # None => report[2] = report[1] + 1
        /\ (pc = "done"
              /\ n_function_evaluations >= options.max_function_evaluations)
            => n_function_evaluations = options.max_function_evaluations

\* C10: with record_fitness False, SRS and LMMAES add nothing to the
\* fitness trace.
C10_NoTraceWhenDisabled ==
    (options.class \in {"SRS", "LMMAES"} /\ ~options.record_fitness) =>
        fitness = <<>>

\* C11: a generation of SRS evaluates exactly one candidate, x + delta_x,
\* and then makes exactly one move: along the perturbation when the uniform
\* draw is below beta, toward the best-so-far point otherwise; never the
\* former with beta = 0, never the latter with beta = 1; the best-so-far
\* point of the move is the one this generation's evaluation has updated.
C11_Generation == options.class = "SRS" /\ pc = "iterate" /\ pc' = "check"

C11_Exploration == RAdd(x, RMul(options.alpha, drawn'.delta_x))

C11_Exploitation ==
    RAdd(x, RMul(options.alpha, RSub(best_so_far_x', x)))

C11_OneEvaluationOneMove ==
    [][C11_Generation =>
        /\ n_function_evaluations' = n_function_evaluations + 1
        /\ best_so_far_x' \in {best_so_far_x, RAdd(x, drawn'.delta_x)}
        /\ best_so_far_y' # best_so_far_y =>
               best_so_far_x' = RAdd(x, drawn'.delta_x)
        /\ x' = IF RLt(drawn'.probability, options.beta)
                THEN C11_Exploration ELSE C11_Exploitation
        /\ options.beta = Zero => x' = C11_Exploitation
        /\ options.beta = One => x' = C11_Exploration]_vars

\* the first generation took the exploitation move toward a best-so-far
\* point that its own evaluation had just replaced
C11_Witness ==
    /\ options.class = "SRS" /\ pc = "check"
    /\ n_function_evaluations = 2
    /\ ~RLt(drawn.probability, options.beta)
    /\ drawn.delta_x # Zero
    /\ best_so_far_x = RAdd(options.x, drawn.delta_x)
    /\ x = RAdd(options.x, RMul(options.alpha, drawn.delta_x))

\* C12: ranking is by ascending fitness in LMMAES and XNES: of two
\* candidates of a fully evaluated population, the one of strictly lower
\* fitness contributes with at least the weight of the other. LMMAES
\* recombines exactly the n_parents candidates of lowest fitness, the
\* candidate of rank r with weight w[r]; the XNES utilities are ordered the
\* same way and sum to zero.
C12_rank(o, i) == CHOOSE r \in 1..options.n_individuals : o[r] = i

C12_weight(o, i) ==
    IF options.class = "XNES" THEN XNES_utilities(o)[i]
    ELSE IF C12_rank(o, i) <= options.n_parents
         THEN ES_w(options.n_parents)[C12_rank(o, i)] ELSE Zero

C12_Ranked ==
    (IsPopulationBased /\ pc = "restart") =>
        LET n == options.n_individuals IN
        /\ \A i, j \in 1..n : y[i][1] < y[j][1] =>
               ~RLt(C12_weight(ranked, i), C12_weight(ranked, j))
        /\ options.class = "LMMAES" =>
               \A i, j \in 1..n :
                   (C12_rank(ranked, i) <= options.n_parents
                      /\ C12_rank(ranked, j) > options.n_parents)
                   => y[i][1] <= y[j][1]
        /\ options.class = "XNES" =>
               SumTo([i \in 1..n |-> C12_weight(ranked, i)], n) = Zero

C12_Recombined ==
    (options.class = "LMMAES" /\ pc = "update") =>
        LET n == options.n_individuals
            z_w == SumTo([i \in 1..n |->
                       RMul(C12_weight(ranked', i), z[i])], n)
        IN  s' = RAdd(RMul(s_1, s), RMul(s_2, z_w))

C12_RankingAscending == []C12_Ranked /\ [][C12_Recombined]_vars

\* an LMMAES update that ranked the second candidate before the first and
\* left the first out of the recombination
C12_Witness ==
    /\ options.class = "LMMAES" /\ pc = "restart"
    /\ options.n_individuals = 2 /\ options.n_parents = 1
    /\ y[2][1] < y[1][1]
    /\ ranked = <<2, 1>>
    /\ z[1] # z[2]

\* C13: in LMMAES the factor on the old evolution path, and on each old
\* tm[k], is 1 - c when that is not negative and 0.5 when it is, for c_s
\* and every c_c[k]; mu_eff * c * (2 - c) is replaced by 0.25 when
\* negative, so that initialize and _update_distribution take no square
\* root of a negative number.
C13_factor_ok(f, c) ==
    /\ ~RLt(f, Zero)
    /\ ~RLt(RSub(One, c), Zero) => f = RSub(One, c)
    /\ RLt(RSub(One, c), Zero) => f = Half

C13_radicand(c) ==
    RMul(ES_mu_eff(options.n_parents), RMul(c, RSub(<<2, 1>>, c)))

C13_radicand_ok(q, c) ==
    /\ ~RLt(q, Zero)
    /\ ~RLt(C13_radicand(c), Zero) => q = C13_radicand(c)
    /\ RLt(C13_radicand(c), Zero) => q = Rat(1, 4)

C13_Initialized ==
    (options.class = "LMMAES" /\ pc # "initialize") =>
        /\ C13_factor_ok(s_1, c_s)
        /\ \E q \in {C13_radicand(c_s), Rat(1, 4)} :
               C13_radicand_ok(q, c_s) /\ s_2 = RSqrt(q)

C13_Updated ==
    (options.class = "LMMAES" /\ pc = "update") =>
        LET n == options.n_individuals
            z_w == SumTo([i \in 1..n |->
                       RMul(C12_weight(ranked', i), z[i])], n)
        IN  \A j \in 1..options.n_evolution_paths :
                \E f \in {RSub(One, LMMAES_c_c(j - 1)), Half},
                   q \in {C13_radicand(LMMAES_c_c(j - 1)), Rat(1, 4)} :
                    /\ C13_factor_ok(f, LMMAES_c_c(j - 1))
                    /\ C13_radicand_ok(q, LMMAES_c_c(j - 1))
                    /\ tm'[j] = RAdd(RMul(f, tm[j]), RMul(RSqrt(q), z_w))

C14_TraceWithinEvaluations ==
    (options.class = "LMMAES" /\ options.record_fitness) =>
        Len(fitness) <= n_function_evaluations
====
